---------------------------- MODULE Spec2Model ----------------------------
(***************************************************************************)
(* Model of public/wasm/python/document_analyzer.py: the DocumentAnalyzer  *)
(* class (pattern catalogs, scoring loops, exam mapping, name generation   *)
(* and batch analysis).                                                    *)
(*                                                                         *)
(* Python values are represented as follows.                               *)
(*   str            a TLA+ string                                          *)
(*   Optional[str]  a sequence of length <= 1: <<>> is None, <<s>> is s    *)
(*   float          an IEEE-754 double, held exactly as a 4-digit number   *)
(*                  in base 2^19 counting units of 2^-56 (see FAdd)        *)
(*   dict           a record                                               *)
(*   list           a sequence                                             *)
(***************************************************************************)
EXTENDS Integers, Sequences, FiniteSets, TLC

VARIABLES pc, call, ret

vars == <<pc, call, ret>>

-----------------------------------------------------------------------------
(* Optional values and truthiness                                          *)

None == <<>>

Some(s) == <<s>>

\* Python truthiness of an Optional[str]: None and '' are falsy.
Truthy(o) == o # None /\ o[1] # ""

-----------------------------------------------------------------------------
(* Strings: str.lower, str.upper, the `in` operator, str.split, '_'.join   *)

LowerMap ==
  [A |-> "a", B |-> "b", C |-> "c", D |-> "d", E |-> "e", F |-> "f", G |-> "g",
   H |-> "h", I |-> "i", J |-> "j", K |-> "k", L |-> "l", M |-> "m", N |-> "n",
   O |-> "o", P |-> "p", Q |-> "q", R |-> "r", S |-> "s", T |-> "t", U |-> "u",
   V |-> "v", W |-> "w", X |-> "x", Y |-> "y", Z |-> "z"]

UpperMap ==
  [a |-> "A", b |-> "B", c |-> "C", d |-> "D", e |-> "E", f |-> "F", g |-> "G",
   h |-> "H", i |-> "I", j |-> "J", k |-> "K", l |-> "L", m |-> "M", n |-> "N",
   o |-> "O", p |-> "P", q |-> "Q", r |-> "R", s |-> "S", t |-> "T", u |-> "U",
   v |-> "V", w |-> "W", x |-> "X", y |-> "Y", z |-> "Z"]

CharAt(s, i) == SubSeq(s, i, i)

RECURSIVE MapChars(_, _)
MapChars(m, s) ==
  IF s = "" THEN ""
  ELSE LET c == CharAt(s, 1)
       IN (IF c \in DOMAIN m THEN m[c] ELSE c) \o MapChars(m, SubSeq(s, 2, Len(s)))

\* str.lower()
Lower(s) == MapChars(LowerMap, s)

\* str.upper()
Upper(s) == MapChars(UpperMap, s)

\* s[pos:pos+len(k)] == k
StartsAt(k, s, pos) ==
  pos + Len(k) - 1 <= Len(s) /\ SubSeq(s, pos, pos + Len(k) - 1) = k

\* k in s
Contains(k, s) == \E pos \in 1..(Len(s) + 1) : StartsAt(k, s, pos)

\* s.split('.'): the pieces between the dots, in order
RECURSIVE SplitFrom(_, _, _)
SplitFrom(s, start, pos) ==
  IF pos > Len(s) THEN <<SubSeq(s, start, Len(s))>>
  ELSE IF CharAt(s, pos) = "."
       THEN <<SubSeq(s, start, pos - 1)>> \o SplitFrom(s, pos + 1, pos + 1)
       ELSE SplitFrom(s, start, pos + 1)

SplitDot(s) == SplitFrom(s, 1, 1)

\* '_'.join(parts)
RECURSIVE JoinUnderscore(_)
JoinUnderscore(parts) ==
  IF parts = <<>> THEN ""
  ELSE IF Len(parts) = 1 THEN parts[1]
  ELSE parts[1] \o "_" \o JoinUnderscore(Tail(parts))

-----------------------------------------------------------------------------
(* Regular expressions: re.search(pattern, filename, re.IGNORECASE).       *)
(* A pattern is a sequence of branches (the top-level `|`), each branch a  *)
(* sequence of items.                                                      *)

\* a literal run of characters
Lit(s) == [k |-> "lit", alts |-> <<s>>]

\* an optional literal: x? and (?:xyz)?
Opt(s) == [k |-> "opt", alts |-> <<s>>]

\* one of several literals: (?:a|b) and [ab]
Grp(a) == [k |-> "grp", alts |-> a]

\* \s*
WS == [k |-> "ws", alts |-> <<>>]

\* \b
WB == [k |-> "wb", alts |-> <<>>]

\* \s
Whitespace == {" ", "\t", "\n", "\r", "\f"}

\* \w
WordChars ==
  (DOMAIN LowerMap) \cup (DOMAIN UpperMap)
    \cup {"0", "1", "2", "3", "4", "5", "6", "7", "8", "9", "_"}

IsWordAt(s, i) == i >= 1 /\ i <= Len(s) /\ CharAt(s, i) \in WordChars

\* \b at the gap before position pos
BoundaryAt(s, pos) == IsWordAt(s, pos - 1) # IsWordAt(s, pos)

\* the items from the j-th on match s starting at pos
RECURSIVE MatchItems(_, _, _, _)
MatchItems(items, j, s, pos) ==
  IF j > Len(items) THEN TRUE
  ELSE LET it == items[j]
       IN CASE it.k = "lit" ->
                 StartsAt(it.alts[1], s, pos)
                   /\ MatchItems(items, j + 1, s, pos + Len(it.alts[1]))
            [] it.k = "opt" ->
                 \/ StartsAt(it.alts[1], s, pos)
                      /\ MatchItems(items, j + 1, s, pos + Len(it.alts[1]))
                 \/ MatchItems(items, j + 1, s, pos)
            [] it.k = "grp" ->
                 \E a \in 1..Len(it.alts) :
                    StartsAt(it.alts[a], s, pos)
                      /\ MatchItems(items, j + 1, s, pos + Len(it.alts[a]))
            [] it.k = "ws" ->
                 \E n \in 0..(Len(s) + 1 - pos) :
                    /\ \A q \in pos..(pos + n - 1) : CharAt(s, q) \in Whitespace
                    /\ MatchItems(items, j + 1, s, pos + n)
            [] it.k = "wb" ->
                 BoundaryAt(s, pos) /\ MatchItems(items, j + 1, s, pos)

\* re.search(pattern, s, re.IGNORECASE); the catalog's patterns are written in
\* lower case, so folding the subject's case is what IGNORECASE amounts to
RegexSearch(pattern, s) ==
  LET t == Lower(s)
  IN \E b \in 1..Len(pattern) :
        \E pos \in 1..(Len(t) + 1) : MatchItems(pattern[b], 1, t, pos)

-----------------------------------------------------------------------------
(* Floats.  A double d >= 0 is the number d / 2^-56 written with four      *)
(* digits in base 2^19, most significant first.  Every double in           *)
(* [2^-4, 8) is a whole number of such units, and so is every sum of two.  *)

Base == 2^19

\* the literals of the source, as IEEE-754 doubles
F0_0 == <<0, 0, 0, 0>>

\* 0.1 = 0x1.999999999999ap-4
F0_1 == <<0, 26214, 209715, 104858>>

\* 0.2 = 0x1.999999999999ap-3
F0_2 == <<0, 52428, 419430, 209716>>

\* 0.3 = 0x1.3333333333333p-2
F0_3 == <<0, 78643, 104857, 314572>>

\* 0.4 = 0x1.999999999999ap-2
F0_4 == <<0, 104857, 314572, 419432>>

\* 0.5
F0_5 == <<0, 131072, 0, 0>>

\* 1.0
F1_0 == <<0, 262144, 0, 0>>

\* carry propagation of a digit-wise sum
Carry(d3, d2, d1, d0) ==
  LET c1 == d1 + d0 \div Base
      c2 == d2 + c1 \div Base
      c3 == d3 + c2 \div Base
  IN <<c3, c2 % Base, c1 % Base, d0 % Base>>

\* log2 of the unit in the last place of the doubles of n's binade
UlpShift(n) ==
  CASE n[1] >= 4 -> 7
    [] n[1] >= 2 -> 6
    [] n[1] >= 1 -> 5
    [] n[2] >= 2^18 -> 4
    [] n[2] >= 2^17 -> 3
    [] n[2] >= 2^16 -> 2
    [] n[2] >= 2^15 -> 1
    [] OTHER -> 0

\* round-to-nearest, ties-to-even, to 53 significant bits
RoundToDouble(n) ==
  LET u == 2^UlpShift(n)
      r == n[4] % u
      down == <<n[1], n[2], n[3], n[4] - r>>
      up == Carry(n[1], n[2], n[3], n[4] - r + u)
  IN IF 2 * r > u \/ (2 * r = u /\ (n[4] \div u) % 2 = 1) THEN up ELSE down

\* a + b
FAdd(a, b) == RoundToDouble(Carry(a[1] + b[1], a[2] + b[2], a[3] + b[3], a[4] + b[4]))

\* a < b
FLess(a, b) ==
  \E i \in 1..4 : a[i] < b[i] /\ \A j \in 1..(i - 1) : a[j] = b[j]

\* a > b
FGreater(a, b) == FLess(b, a)

\* min(a, b)
FMin(a, b) == IF FLess(b, a) THEN b ELSE a

\* round(s / 2, 2), as a count of hundredths.  Halving is exact in binary, so
\* s / 2 is s read in units of 2^-57; round() rounds the exact value to the
\* nearest hundredth, ties to even, and returns the double nearest to it.
RoundHalfTo2(s) ==
  LET c0 == 100 * s[4]
      c1 == 100 * s[3] + c0 \div Base
      c2 == 100 * s[2] + c1 \div Base
      q == 100 * s[1] + c2 \div Base
      frac == <<0, c2 % Base, c1 % Base, c0 % Base>>
      half == <<0, Base \div 2, 0, 0>>
  IN IF FLess(half, frac) \/ (frac = half /\ q % 2 = 1) THEN q + 1 ELSE q

-----------------------------------------------------------------------------
(* The pattern catalogs built by __init__.  A dict is iterated in          *)
(* insertion order, so each catalog is a sequence of its entries.          *)

document_patterns ==
  << [id |-> "photograph",
      keywords |-> <<"photo", "photograph", "image", "picture", "pic",
                     "passport size", "headshot", "passport photo",
                     "passport photograph">>,
      patterns |-> << <<<<Lit("photo"), Opt("graph")>>>>,
                      <<<<Lit("image")>>>>,
                      <<<<Lit("picture")>>>>,
                      <<<<Lit("passport"), WS, Grp(<<"size", "photo">>)>>>>,
                      <<<<Lit("headshot")>>>>,
                      <<<<Lit("postcard"), WS, Lit("photo")>>>> >>,
      exam_mappings |-> [jee |-> "photograph", neet |-> "passport_photograph",
                         upsc |-> "photograph", gate |-> "photograph",
                         cat |-> "photograph"]],
     [id |-> "postcard_photograph",
      keywords |-> <<"postcard photo", "postcard photograph", "postcard size photo">>,
      patterns |-> << <<<<Lit("postcard"), WS, Grp(<<"photo", "photograph">>)>>>>,
                      <<<<Lit("postcard"), WS, Lit("size")>>>> >>,
      exam_mappings |-> [neet |-> "postcard_photograph"]],
     [id |-> "signature",
      keywords |-> <<"signature", "sign", "autograph", "signed", "sig">>,
      patterns |-> << <<<<Lit("signature")>>>>,
                      <<<<Lit("sign"), Opt("ed")>>>>,
                      <<<<Lit("autograph")>>>>,
                      <<<<WB, Lit("sig"), WB>>>> >>,
      exam_mappings |-> [jee |-> "signature", neet |-> "signature",
                         upsc |-> "signature", gate |-> "signature",
                         cat |-> "signature"]],
     [id |-> "class10_certificate",
      keywords |-> <<"class 10", "10th", "tenth", "x class", "sslc", "matriculation",
                     "class10", "class-10", "10 class">>,
      patterns |-> << <<<<Lit("class"), WS, Lit("10")>>>>,
                      <<<<Lit("10t"), Opt("h")>>>>,
                      <<<<Lit("tenth")>>>>,
                      <<<<Lit("x"), WS, Lit("class")>>>>,
                      <<<<Lit("sslc")>>>>,
                      <<<<Lit("matriculation")>>>> >>,
      exam_mappings |-> [jee |-> "class10_certificate", neet |-> "class10_certificate"]],
     [id |-> "category_certificate",
      keywords |-> <<"caste certificate", "category certificate",
                     "reservation certificate", "obc", "sc", "st", "ews",
                     "minority", "pwd", "disability">>,
      patterns |-> << <<<<Lit("caste"), WS, Lit("certificate")>>>>,
                      <<<<Lit("category"), WS, Lit("certificate")>>>>,
                      <<<<Lit("reservation"), WS, Lit("certificate")>>>>,
                      <<<<Lit("obc")>>, <<Lit("sc")>>, <<Lit("st")>>, <<Lit("ews")>>>>,
                      <<<<Lit("minority"), WS, Lit("certificate")>>>>,
                      <<<<Lit("pwd")>>, <<Lit("disability")>>>> >>,
      exam_mappings |-> [neet |-> "category_certificate", gate |-> "category_certificate"]],
     [id |-> "caste_or_pwd_certificate",
      keywords |-> <<"caste certificate", "pwd certificate", "disability certificate",
                     "reservation certificate", "category certificate">>,
      patterns |-> << <<<<Lit("caste"), WS, Lit("certificate")>>>>,
                      <<<<Lit("pwd"), WS, Lit("certificate")>>>>,
                      <<<<Lit("disability"), WS, Lit("certificate")>>>>,
                      <<<<Lit("reservation"), WS, Lit("certificate")>>>> >>,
      exam_mappings |-> [jee |-> "caste_or_pwd_certificate"]],
     [id |-> "finger_thumb_impressions",
      keywords |-> <<"finger impression", "thumb impression", "fingerprint",
                     "thumb print", "finger print">>,
      patterns |-> << <<<<Lit("finger"), WS, Grp(<<"impression", "print">>)>>>>,
                      <<<<Lit("thumb"), WS, Grp(<<"impression", "print">>)>>>>,
                      <<<<Lit("fingerprint")>>>> >>,
      exam_mappings |-> [neet |-> "finger_thumb_impressions"]],
     [id |-> "address_proof",
      keywords |-> <<"address proof", "address certificate", "domicile",
                     "residence proof", "residential certificate">>,
      patterns |-> << <<<<Lit("address"), WS, Grp(<<"proof", "certificate">>)>>>>,
                      <<<<Lit("domicile")>>>>,
                      <<<<Lit("residence"), WS, Lit("proof")>>>>,
                      <<<<Lit("residential"), WS, Lit("certificate")>>>> >>,
      exam_mappings |-> [neet |-> "address_proof"]],
     [id |-> "photo_id_proof",
      keywords |-> <<"photo id", "identity proof", "id proof", "aadhar", "aadhaar",
                     "pan card", "voter id", "passport", "driving license">>,
      patterns |-> << <<<<Lit("photo"), WS, Lit("id")>>>>,
                      <<<<Lit("identity"), WS, Lit("proof")>>>>,
                      <<<<Lit("id"), WS, Lit("proof")>>>>,
                      <<<<Lit("a"), Opt("a"), Lit("d"), Opt("h"), Lit("a"), Opt("a"),
                          Lit("r")>>>>,
                      <<<<Lit("pan"), WS, Lit("card")>>>>,
                      <<<<Lit("voter"), WS, Lit("id")>>>>,
                      <<<<Lit("passport")>>>>,
                      <<<<Lit("driving"), WS, Lit("licen"), Grp(<<"c", "s">>),
                          Lit("e")>>>> >>,
      exam_mappings |-> [upsc |-> "photo_id_proof"]],
     [id |-> "certificates_academic_or_category",
      keywords |-> <<"academic certificate", "degree certificate",
                     "graduation certificate", "category certificate",
                     "educational certificate">>,
      patterns |-> << <<<<Lit("academic"), WS, Lit("certificate")>>>>,
                      <<<<Lit("degree"), WS, Lit("certificate")>>>>,
                      <<<<Lit("graduation"), WS, Lit("certificate")>>>>,
                      <<<<Lit("educational"), WS, Lit("certificate")>>>> >>,
      exam_mappings |-> [cat |-> "certificates_academic_or_category"]] >>

education_patterns ==
  << [id |-> "10th",
      keywords |-> <<"10th", "tenth", "class 10", "x class", "sslc", "matriculation">>,
      patterns |-> << <<<<Lit("10t"), Opt("h")>>>>,
                      <<<<Lit("tenth")>>>>,
                      <<<<Lit("class"), WS, Lit("10")>>>>,
                      <<<<Lit("x"), WS, Lit("class")>>>>,
                      <<<<Lit("sslc")>>>>,
                      <<<<Lit("matriculation")>>>> >>],
     [id |-> "12th",
      keywords |-> <<"12th", "twelfth", "class 12", "xii class", "intermediate",
                     "higher secondary">>,
      patterns |-> << <<<<Lit("12t"), Opt("h")>>>>,
                      <<<<Lit("twelfth")>>>>,
                      <<<<Lit("class"), WS, Lit("12")>>>>,
                      <<<<Lit("xii"), WS, Lit("class")>>>>,
                      <<<<Lit("intermediate")>>>>,
                      <<<<Lit("higher"), WS, Lit("secondary")>>>> >>],
     [id |-> "graduation",
      keywords |-> <<"graduation", "bachelor", "b.tech", "b.sc", "b.com", "b.a",
                     "undergraduate">>,
      patterns |-> << <<<<Lit("graduation")>>>>,
                      <<<<Lit("bachelor")>>>>,
                      <<<<Lit("b"), Opt("."), Lit("tech")>>>>,
                      <<<<Lit("b"), Opt("."), Lit("sc")>>>>,
                      <<<<Lit("b"), Opt("."), Lit("com")>>>>,
                      <<<<Lit("b"), Opt("."), Lit("a")>>>>,
                      <<<<Lit("undergraduate")>>>> >>] >>

\* the keys of self.document_patterns
DocTypeIds == {document_patterns[i].id : i \in 1..Len(document_patterns)}

\* self.document_patterns[doc_type]
DocConfig(doc_type) ==
  document_patterns[CHOOSE i \in 1..Len(document_patterns) :
                       document_patterns[i].id = doc_type]

-----------------------------------------------------------------------------
(* _detect_document_type                                                   *)

\* mutant: the exam type is looked up among the keys of config itself
ExamBonusWrongTable(config, exam_type, confidence) ==
  IF Truthy(exam_type) /\ exam_type[1] \in DOMAIN config
  THEN FAdd(confidence, F0_1)
  ELSE confidence

\* `if exam_type and exam_type in config.get('exam_mappings', {}): confidence += 0.1`
ExamBonus(config, exam_type, confidence) ==
  IF Truthy(exam_type) /\ exam_type[1] \in DOMAIN config.exam_mappings
  THEN FAdd(confidence, F0_1)
  ELSE confidence

\* mutant: the keyword loop stops at the first keyword found
RECURSIVE DocKeywordLoopBreak(_, _, _, _)
DocKeywordLoopBreak(keywords, i, filename, confidence) ==
  IF i > Len(keywords) THEN confidence
  ELSE IF Contains(Lower(keywords[i]), filename)
       THEN FAdd(confidence, F0_3)
       ELSE DocKeywordLoopBreak(keywords, i + 1, filename, confidence)

\* `for keyword in config['keywords']: if keyword.lower() in filename: confidence += 0.3`
RECURSIVE DocKeywordLoop(_, _, _, _)
DocKeywordLoop(keywords, i, filename, confidence) ==
  IF i > Len(keywords) THEN confidence
  ELSE DocKeywordLoop(keywords, i + 1, filename,
                      IF Contains(Lower(keywords[i]), filename)
                      THEN FAdd(confidence, F0_3)
                      ELSE confidence)

\* `for pattern in config['patterns']: if re.search(...): confidence += 0.4; break`
RECURSIVE DocPatternLoop(_, _, _, _)
DocPatternLoop(patterns, i, filename, confidence) ==
  IF i > Len(patterns) THEN confidence
  ELSE IF RegexSearch(patterns[i], filename)
       THEN FAdd(confidence, F0_4)
       ELSE DocPatternLoop(patterns, i + 1, filename, confidence)

\* `for keyword in config['keywords']: if keyword.lower() in content_lower:
\*  confidence += 0.2; break`
RECURSIVE DocContentLoop(_, _, _, _)
DocContentLoop(keywords, i, content_lower, confidence) ==
  IF i > Len(keywords) THEN confidence
  ELSE IF Contains(Lower(keywords[i]), content_lower)
       THEN FAdd(confidence, F0_2)
       ELSE DocContentLoop(keywords, i + 1, content_lower, confidence)

\* the body of the loop over document_patterns up to the comparison: the raw
\* confidence of one document type
DocTypeConfidence(config, filename, exam_type, content) ==
  LET c1 == ExamBonus(config, exam_type, F0_0)
      c2 == DocKeywordLoop(config.keywords, 1, filename, c1)
      c3 == DocPatternLoop(config.patterns, 1, filename, c2)
  IN IF Truthy(content)
     THEN DocContentLoop(config.keywords, 1, Lower(content[1]), c3)
     ELSE c3

\* mutant: the fallback document type is the empty string
DocTypeInitialEmpty == [match |-> "", confidence |-> F0_0]

\* `best_match = 'document'; best_confidence = 0.0`
DocTypeInitial == [match |-> "document", confidence |-> F0_0]

\* mutant: `>=` in place of `>`
DocTypeStepOrEqual(best, doc_type, confidence) ==
  IF ~FLess(confidence, best.confidence)
  THEN [match |-> doc_type, confidence |-> confidence]
  ELSE best

\* `if confidence > best_confidence: best_confidence = confidence; best_match = doc_type`
DocTypeStep(best, doc_type, confidence) ==
  IF FGreater(confidence, best.confidence)
  THEN [match |-> doc_type, confidence |-> confidence]
  ELSE best

RECURSIVE DocTypeLoop(_, _, _, _, _)
DocTypeLoop(i, best, filename, exam_type, content) ==
  IF i > Len(document_patterns) THEN best
  ELSE DocTypeLoop(i + 1,
                   DocTypeStep(best, document_patterns[i].id,
                               DocTypeConfidence(document_patterns[i], filename,
                                                 exam_type, content)),
                   filename, exam_type, content)

\* mutant: the raw score is returned as it is
NoClamp(best_confidence) == best_confidence

\* `min(best_confidence, 1.0)`
ClampConfidence(best_confidence) == FMin(best_confidence, F1_0)

detect_document_type(filename, exam_type, content) ==
  LET best == DocTypeLoop(1, DocTypeInitial, filename, exam_type, content)
  IN <<best.match, ClampConfidence(best.confidence)>>

-----------------------------------------------------------------------------
(* _detect_education_level                                                 *)

\* mutant: the document-type keyword weight
EduKeywordWeightOfDoc == F0_3

\* `confidence += 0.4` per keyword found in the filename
EduKeywordWeight == F0_4

\* `confidence += 0.5` for the first pattern that matches
EduPatternWeight == F0_5

\* `confidence += 0.3` for the first keyword found in the content
EduContentWeight == F0_3

RECURSIVE EduKeywordLoop(_, _, _, _)
EduKeywordLoop(keywords, i, filename, confidence) ==
  IF i > Len(keywords) THEN confidence
  ELSE EduKeywordLoop(keywords, i + 1, filename,
                      IF Contains(Lower(keywords[i]), filename)
                      THEN FAdd(confidence, EduKeywordWeight)
                      ELSE confidence)

RECURSIVE EduPatternLoop(_, _, _, _)
EduPatternLoop(patterns, i, filename, confidence) ==
  IF i > Len(patterns) THEN confidence
  ELSE IF RegexSearch(patterns[i], filename)
       THEN FAdd(confidence, EduPatternWeight)
       ELSE EduPatternLoop(patterns, i + 1, filename, confidence)

RECURSIVE EduContentLoop(_, _, _, _)
EduContentLoop(keywords, i, content_lower, confidence) ==
  IF i > Len(keywords) THEN confidence
  ELSE IF Contains(Lower(keywords[i]), content_lower)
       THEN FAdd(confidence, EduContentWeight)
       ELSE EduContentLoop(keywords, i + 1, content_lower, confidence)

\* the raw confidence of one education level
EduLevelConfidence(config, filename, content) ==
  LET c1 == EduKeywordLoop(config.keywords, 1, filename, F0_0)
      c2 == EduPatternLoop(config.patterns, 1, filename, c1)
  IN IF Truthy(content)
     THEN EduContentLoop(config.keywords, 1, Lower(content[1]), c2)
     ELSE c2

\* `best_match = ''; best_confidence = 0.0`
EduLevelInitial == [match |-> "", confidence |-> F0_0]

\* `if confidence > best_confidence: best_confidence = confidence; best_match = edu_level`
EduLevelStep(best, edu_level, confidence) ==
  IF FGreater(confidence, best.confidence)
  THEN [match |-> edu_level, confidence |-> confidence]
  ELSE best

RECURSIVE EduLevelLoop(_, _, _, _)
EduLevelLoop(i, best, filename, content) ==
  IF i > Len(education_patterns) THEN best
  ELSE EduLevelLoop(i + 1,
                    EduLevelStep(best, education_patterns[i].id,
                                 EduLevelConfidence(education_patterns[i], filename,
                                                    content)),
                    filename, content)

detect_education_level(filename, content) ==
  LET best == EduLevelLoop(1, EduLevelInitial, filename, content)
  IN <<best.match, ClampConfidence(best.confidence)>>

-----------------------------------------------------------------------------
(* _get_exam_mapping, _get_exam_specific_category, _generate_exam_specific_name *)

\* mutant: a missing exam type defaults to the exam type, not to doc_type
get_exam_mapping_default_exam(doc_type, exam_type) ==
  IF ~Truthy(exam_type) \/ doc_type \notin DocTypeIds
  THEN doc_type
  ELSE LET exam_mappings == DocConfig(doc_type).exam_mappings
       IN IF exam_type[1] \in DOMAIN exam_mappings
          THEN exam_mappings[exam_type[1]]
          ELSE exam_type[1]

get_exam_mapping(doc_type, exam_type) ==
  IF ~Truthy(exam_type) \/ doc_type \notin DocTypeIds
  THEN doc_type
  ELSE LET exam_mappings == DocConfig(doc_type).exam_mappings
       IN IF exam_type[1] \in DOMAIN exam_mappings
          THEN exam_mappings[exam_type[1]]
          ELSE doc_type

get_exam_specific_category(doc_type, exam_type) == get_exam_mapping(doc_type, exam_type)

\* mutant: `split('.')[1]`, the piece after the first dot
FileExtensionAfterFirstDot(original_name) ==
  IF Contains(".", original_name)
  THEN SplitDot(original_name)[2]
  ELSE "pdf"

\* `original_name.split('.')[-1] if '.' in original_name else 'pdf'`
FileExtension(original_name) ==
  IF Contains(".", original_name)
  THEN LET pieces == SplitDot(original_name) IN pieces[Len(pieces)]
  ELSE "pdf"

edu_map == ("10th" :> "10th") @@ ("12th" :> "12th") @@ ("graduation" :> "Graduation")

doc_map ==
  [photograph |-> "Photo", signature |-> "Signature",
   class10_certificate |-> "Class10Certificate",
   category_certificate |-> "CategoryCertificate", document |-> "Document"]

\* `[part for part in name_parts if part]`
NonEmptyParts(name_parts) == SelectSeq(name_parts, LAMBDA part : part # "")

\* the else branch: generic naming from the two display tables
GenericNameParts(doc_type, edu_level) ==
  LET edu_part == IF edu_level # "" /\ edu_level \in DOMAIN edu_map
                  THEN <<edu_map[edu_level]>> ELSE <<>>
      doc_part == IF doc_type \in DOMAIN doc_map THEN <<doc_map[doc_type]>> ELSE <<>>
      name_parts == edu_part \o doc_part
  IN IF name_parts = <<>> THEN <<"Document">> ELSE name_parts

generate_exam_specific_name(doc_type, edu_level, original_name, exam_type) ==
  LET file_extension == FileExtension(original_name)
      exam_specific_type == get_exam_mapping(doc_type, exam_type)
      base_name ==
        IF exam_specific_type # ""
        THEN JoinUnderscore(NonEmptyParts(
               <<IF Truthy(exam_type) THEN Upper(exam_type[1]) ELSE "",
                 exam_specific_type>>))
        ELSE JoinUnderscore(GenericNameParts(doc_type, edu_level))
  IN base_name \o "." \o file_extension

-----------------------------------------------------------------------------
(* analyze_document and batch_analyze                                      *)

\* `confidence` is round((doc + edu) / 2, 2), held as its count of hundredths
analyze_document(filename, exam_type, file_content) ==
  LET filename_lower == Lower(filename)
      doc == detect_document_type(filename_lower, exam_type, file_content)
      edu == detect_education_level(filename_lower, file_content)
      suggested_name == generate_exam_specific_name(doc[1], edu[1], filename, exam_type)
  IN [original_name |-> filename,
      suggested_name |-> suggested_name,
      document_type |-> doc[1],
      education_level |-> edu[1],
      exam_type |-> exam_type,
      confidence |-> RoundHalfTo2(FAdd(doc[2], edu[2])),
      detected_category |-> get_exam_specific_category(doc[1], exam_type),
      analysis_details |->
        [document_type_confidence |-> doc[2],
         education_level_confidence |-> edu[2],
         exam_specific_mapping |-> get_exam_mapping(doc[1], exam_type)]]

\* a file_info dict holds its keys as optionals: an absent key is None
\* `file_info.get('name', '')`
FileInfoName(file_info) == IF file_info.name = None THEN "" ELSE file_info.name[1]

\* `file_info.get('content', None)`
FileInfoContent(file_info) == file_info.content

\* mutant: `results.insert(0, analysis)`
RECURSIVE BatchLoopInsertFront(_, _, _, _)
BatchLoopInsertFront(files_info, i, exam_type, results) ==
  IF i > Len(files_info) THEN results
  ELSE BatchLoopInsertFront(files_info, i + 1, exam_type,
         <<analyze_document(FileInfoName(files_info[i]), exam_type,
                            FileInfoContent(files_info[i]))>> \o results)

RECURSIVE BatchLoop(_, _, _, _)
BatchLoop(files_info, i, exam_type, results) ==
  IF i > Len(files_info) THEN results
  ELSE BatchLoop(files_info, i + 1, exam_type,
                 Append(results,
                        analyze_document(FileInfoName(files_info[i]), exam_type,
                                         FileInfoContent(files_info[i]))))

batch_analyze(files_info, exam_type) == BatchLoop(files_info, 1, exam_type, <<>>)

-----------------------------------------------------------------------------
(* The state machine.  The analyzer keeps no state between calls (the      *)
(* catalogs are never written after __init__), so a behaviour is one call: *)
(* the caller's arguments are drawn in Init and the called method runs.    *)

MaxBatch == 2

FileNames ==
  {"", "x.jpg", "x.", "report", "photo_10th.jpg", "signature.pdf", "Signature.PDF",
   "my_sig.docx", "sig.png", "epic.txt", "minority.pdf", "passport photograph.png",
   "passport  size.jpg", "postcard photo.jpg", "caste certificate.pdf",
   "aadhaar.card.jpeg", "driving licence", "domicile.pdf", "thumb impression.jpg",
   "Class 10 SSLC.pdf", "10th class 10.pdf", "12th_marks.pdf",
   "photograph signature.pdf",
   "b.tech degree certificate.pdf", "graduation_photo.jpeg"}

ExamTypes ==
  {None, Some(""), Some("jee"), Some("neet"), Some("upsc"), Some("gate"),
   Some("cat"), Some("ssc")}

Contents ==
  {None, Some(""), Some("degree certificate"), Some("Signature and PHOTO of a 10th class student"),
   Some("lorem ipsum")}

\* the file_info dicts of a batch: with and without 'name', with and without 'content'
FileInfos ==
  {[name |-> Some("photo_10th.jpg"), content |-> None],
   [name |-> Some("signature.pdf"), content |-> Some("10th class")],
   [name |-> None, content |-> None],
   [name |-> None, content |-> Some("passport photo")]}

BatchExamTypes == {None, Some("neet"), Some("ssc")}

RECURSIVE SeqsUpTo(_, _)
SeqsUpTo(S, n) ==
  IF n = 0 THEN {<<>>}
  ELSE LET shorter == SeqsUpTo(S, n - 1)
       IN shorter \cup {Append(q, x) : q \in {r \in shorter : Len(r) = n - 1}, x \in S}

Init ==
  /\ pc = "called"
  /\ ret = None
  /\ \/ \E f \in FileNames, e \in ExamTypes, c \in Contents :
          call = [op |-> "analyze_document", filename |-> f, exam_type |-> e,
                  file_content |-> c]
     \/ \E fs \in SeqsUpTo(FileInfos, MaxBatch), e \in BatchExamTypes :
          call = [op |-> "batch_analyze", files_info |-> fs, exam_type |-> e]

AnalyzeDocument ==
  /\ pc = "called"
  /\ call.op = "analyze_document"
  /\ ret' = analyze_document(call.filename, call.exam_type, call.file_content)
  /\ pc' = "returned"
  /\ UNCHANGED call

BatchAnalyze ==
  /\ pc = "called"
  /\ call.op = "batch_analyze"
  /\ ret' = batch_analyze(call.files_info, call.exam_type)
  /\ pc' = "returned"
  /\ UNCHANGED call

Next == AnalyzeDocument \/ BatchAnalyze

Spec == Init /\ [][Next]_vars

-----------------------------------------------------------------------------
(* Properties.  They speak of a returned call, of the catalogs, and of     *)
(* match facts computed directly from the call's arguments.                *)

Returned(op) == pc = "returned" /\ call.op = op

NDoc == Len(document_patterns)

NEdu == Len(education_patterns)

\* the arguments the two detectors receive
ArgFilename == Lower(call.filename)

ArgContent == call.file_content

\* the raw score the code gives the i-th document type / education level
RawDoc(i) ==
  DocTypeConfidence(document_patterns[i], ArgFilename, call.exam_type, ArgContent)

RawEdu(i) == EduLevelConfidence(education_patterns[i], ArgFilename, ArgContent)

\* the raw scores of a catalog, in catalog order
RECURSIVE DocScoresFrom(_)
DocScoresFrom(i) == IF i > NDoc THEN <<>> ELSE <<RawDoc(i)>> \o DocScoresFrom(i + 1)

RECURSIVE EduScoresFrom(_)
EduScoresFrom(i) == IF i > NEdu THEN <<>> ELSE <<RawEdu(i)>> \o EduScoresFrom(i + 1)

RawDocScores == DocScoresFrom(1)

RawEduScores == EduScoresFrom(1)

\* match facts of a catalog entry
KeywordHits(config) ==
  {i \in 1..Len(config.keywords) : Contains(config.keywords[i], ArgFilename)}

PatternHit(config) ==
  \E i \in 1..Len(config.patterns) : RegexSearch(config.patterns[i], ArgFilename)

ContentHit(config) ==
  /\ ArgContent # None
  /\ ArgContent[1] # ""
  /\ \E i \in 1..Len(config.keywords) :
        Contains(config.keywords[i], Lower(ArgContent[1]))

ExamKnownTo(config) ==
  /\ call.exam_type # None
  /\ call.exam_type[1] # ""
  /\ call.exam_type[1] \in DOMAIN config.exam_mappings

\* x + w + ... + w (n times), each addition rounded as a double
RECURSIVE AddTimes(_, _, _)
AddTimes(x, w, n) == IF n = 0 THEN x ELSE AddTimes(FAdd(x, w), w, n - 1)

\* the sum of the signals in the order exam, keywords, pattern, content
SignalSum(exam, hits, pattern, content, wk, wp, wc) ==
  LET a == IF exam THEN FAdd(F0_0, F0_1) ELSE F0_0
      b == AddTimes(a, wk, hits)
      c == IF pattern THEN FAdd(b, wp) ELSE b
  IN IF content THEN FAdd(c, wc) ELSE c

\* i is the first index of sc holding the greatest score
FirstMax(sc, i) ==
  /\ \A j \in DOMAIN sc : ~FLess(sc[i], sc[j])
  /\ \A j \in 1..(i - 1) : FLess(sc[j], sc[i])

\* the greatest score of sc
MaxScore(sc) == sc[CHOOSE i \in DOMAIN sc : FirstMax(sc, i)]

InUnitInterval(x) == ~FLess(x, F0_0) /\ ~FLess(F1_0, x)

\* C1: every result of analyze_document has confidence, document_type_confidence
\* and education_level_confidence within [0.0, 1.0], however large the raw scores.
C1_ConfidencesClamped ==
  Returned("analyze_document") =>
    /\ ret.confidence >= 0 /\ ret.confidence <= 100
    /\ InUnitInterval(ret.analysis_details.document_type_confidence)
    /\ InUnitInterval(ret.analysis_details.education_level_confidence)

\* a call whose best raw scores exceed 1.0 in both dimensions
C1_Witness ==
  /\ Returned("analyze_document")
  /\ LET ds == RawDocScores IN FLess(F1_0, MaxScore(ds))
  /\ LET es == RawEduScores IN FLess(F1_0, MaxScore(es))
  /\ ret.analysis_details.document_type_confidence = F1_0
  /\ ret.confidence = 100

\* C2: in each dimension the result is the first catalog entry holding the
\* greatest raw score (when that score is above 0.0); for "photo_10th.jpg" under
\* neet, photograph and class10_certificate tie and the result is photograph,
\* passport_photograph, 10th.
C2_FirstGreatestWins ==
  Returned("analyze_document") =>
    LET ds == RawDocScores
        es == RawEduScores
    IN /\ \A i \in 1..NDoc :
            (FirstMax(ds, i) /\ FLess(F0_0, ds[i]))
              => ret.document_type = document_patterns[i].id
       /\ \A i \in 1..NEdu :
            (FirstMax(es, i) /\ FLess(F0_0, es[i]))
              => ret.education_level = education_patterns[i].id
       /\ (call.filename = "photo_10th.jpg" /\ call.exam_type = Some("neet"))
            => /\ ds[1] = ds[4]
               /\ ret.document_type = "photograph"
               /\ ret.detected_category = "passport_photograph"
               /\ ret.education_level = "10th"

\* the instance of the claim: two entries share the greatest score
C2_Witness ==
  /\ Returned("analyze_document")
  /\ call.filename = "photo_10th.jpg"
  /\ call.exam_type = Some("neet")
  /\ LET ds == RawDocScores IN ds[1] = ds[4] /\ ds[4] = MaxScore(ds)
  /\ ret.document_type = "photograph"

\* C3: every call returns a result naming a catalog entry or the fallback; a
\* dimension in which no entry scores above 0.0 falls back to "document" / ""
\* with confidence 0.0; the empty filename with no exam type and no content
\* gives "document", "" and confidence 0.0.
C3_Fallback ==
  /\ pc \in {"called", "returned"}
  /\ Returned("analyze_document") =>
       /\ ret.original_name = call.filename
       /\ ret.document_type \in DocTypeIds \cup {"document"}
       /\ ret.education_level
            \in {education_patterns[i].id : i \in 1..NEdu} \cup {""}
       /\ (\A i \in 1..NDoc : ~FLess(F0_0, RawDoc(i)))
            => /\ ret.document_type = "document"
               /\ ret.analysis_details.document_type_confidence = F0_0
       /\ (\A i \in 1..NEdu : ~FLess(F0_0, RawEdu(i)))
            => /\ ret.education_level = ""
               /\ ret.analysis_details.education_level_confidence = F0_0
       /\ (call.filename = "" /\ call.exam_type = None /\ call.file_content = None)
            => /\ ret.document_type = "document"
               /\ ret.education_level = ""
               /\ ret.confidence = 0

C3_Witness ==
  /\ Returned("analyze_document")
  /\ call.filename = ""
  /\ call.exam_type = None
  /\ call.file_content = None
  /\ ret.document_type = "document"
  /\ ret.education_level = ""

\* the substring of name after its last ".", "pdf" when it has none
ExtensionOf(name) ==
  LET dots == {i \in 1..Len(name) : CharAt(name, i) = "."}
  IN IF dots = {} THEN "pdf"
     ELSE LET last == CHOOSE i \in dots : \A j \in dots : j <= i
          IN SubSeq(name, last + 1, Len(name))

\* an exam-specific mapping applies to the detected document type
MappingApplies ==
  /\ call.exam_type # None
  /\ call.exam_type[1] # ""
  /\ \E i \in 1..NDoc :
        /\ document_patterns[i].id = ret.document_type
        /\ call.exam_type[1] \in DOMAIN document_patterns[i].exam_mappings

\* the generic name of section 4.4: education label, then document label
GenericName(doc_type, edu_level) ==
  LET edu == CASE edu_level = "10th" -> <<"10th">>
               [] edu_level = "12th" -> <<"12th">>
               [] edu_level = "graduation" -> <<"Graduation">>
               [] OTHER -> <<>>
      doc == CASE doc_type = "photograph" -> <<"Photo">>
               [] doc_type = "signature" -> <<"Signature">>
               [] doc_type = "class10_certificate" -> <<"Class10Certificate">>
               [] doc_type = "category_certificate" -> <<"CategoryCertificate">>
               [] doc_type = "document" -> <<"Document">>
               [] OTHER -> <<>>
      parts == edu \o doc
  IN IF parts = <<>> THEN "Document"
     ELSE IF Len(parts) = 1 THEN parts[1]
     ELSE parts[1] \o "_" \o parts[2]

\* C4: when no exam-specific mapping applies to the detected document type, the
\* suggested name is the education-level label and the document-type display
\* label joined by underscore (bare "Document" when neither applies), so it
\* contains the display label of every type of the display table.
C4_GenericNameWhenNoMapping ==
  (Returned("analyze_document") /\ ~MappingApplies) =>
    ret.suggested_name =
      GenericName(ret.document_type, ret.education_level) \o "."
        \o ExtensionOf(call.filename)

\* C5: when the exam type is a key of the detected type's exam-mapping table,
\* the suggested name is UPPERCASE(exam) "_" label "." extension, the extension
\* being what follows the last "." of the original name, "pdf" without a ".".
C5_ExamSpecificName ==
  Returned("analyze_document") =>
    /\ \A i \in 1..NDoc :
          (/\ document_patterns[i].id = ret.document_type
           /\ ExamKnownTo(document_patterns[i]))
            => ret.suggested_name =
                 Upper(call.exam_type[1]) \o "_"
                   \o document_patterns[i].exam_mappings[call.exam_type[1]]
                   \o "." \o ExtensionOf(call.filename)
    /\ (/\ call.filename = "x.jpg"
        /\ call.exam_type = Some("neet")
        /\ ret.document_type = "photograph")
          => ret.suggested_name = "NEET_passport_photograph.jpg"

\* a mapped exam and an original name with two dots
C5_Witness ==
  /\ Returned("analyze_document")
  /\ MappingApplies
  /\ call.filename = "aadhaar.card.jpeg"
  /\ call.exam_type = Some("upsc")
  /\ ret.suggested_name = "UPSC_photo_id_proof.jpeg"

ExamsOfCatalog ==
  UNION {DOMAIN document_patterns[i].exam_mappings : i \in 1..NDoc}

\* the label the catalog stores for doc_type under exam_type, else doc_type
CategoryOf(doc_type, exam_type) ==
  LET hit == {i \in 1..NDoc :
                /\ document_patterns[i].id = doc_type
                /\ exam_type # None
                /\ exam_type[1] \in DOMAIN document_patterns[i].exam_mappings}
  IN IF hit = {} THEN doc_type
     ELSE LET i == CHOOSE j \in hit : TRUE
          IN document_patterns[i].exam_mappings[exam_type[1]]

\* C6: detected_category and exam_specific_mapping are the label stored under
\* the exam type in the document type's table when there is one, and the raw
\* document type id otherwise (for every type, "document" included, and every
\* exam type); an unknown exam type adds no exam bonus to any score.
C6_CategoryResolution ==
  /\ \A d \in DocTypeIds \cup {"document"}, e \in ExamTypes :
        get_exam_specific_category(d, e) = CategoryOf(d, e)
  /\ Returned("analyze_document") =>
       /\ ret.detected_category = CategoryOf(ret.document_type, call.exam_type)
       /\ ret.analysis_details.exam_specific_mapping = ret.detected_category
       /\ (call.exam_type # None /\ call.exam_type[1] \notin ExamsOfCatalog)
            => \A i \in 1..NDoc :
                  RawDoc(i) = DocTypeConfidence(document_patterns[i], ArgFilename,
                                                None, ArgContent)

\* an exam type other types know and the detected type does not
C6_Witness ==
  /\ Returned("analyze_document")
  /\ call.exam_type = Some("jee")
  /\ ret.document_type = "address_proof"
  /\ ret.detected_category = "address_proof"

\* C7: batch_analyze returns one result per item, in order, each equal to
\* analyze_document of the item's name ('' when it has none), the exam type and
\* the item's content.
C7_BatchIsPointwise ==
  Returned("batch_analyze") =>
    /\ Len(ret) = Len(call.files_info)
    /\ \A i \in 1..Len(call.files_info) :
          ret[i] = analyze_document(
                     IF call.files_info[i].name = None THEN ""
                     ELSE call.files_info[i].name[1],
                     call.exam_type, call.files_info[i].content)

\* a batch of two different items, the first without a name
C7_Witness ==
  /\ Returned("batch_analyze")
  /\ Len(call.files_info) = 2
  /\ call.files_info[1].name = None
  /\ call.files_info[2].name # None
  /\ ret[1].original_name = ""
  /\ ret[1] # ret[2]

\* C8: the raw score of a document type is the sum, in this order, of 0.1 (exam
\* type a key of its table), 0.3 for each of its keywords found in the filename,
\* 0.4 if any of its patterns matches, and 0.2 if content is given and holds any
\* of its keywords; the returned confidence is the greatest raw score clamped
\* to 1.0 afterwards.
C8_DocScoreFormula ==
  Returned("analyze_document") =>
    /\ \A i \in 1..NDoc :
          LET config == document_patterns[i]
          IN RawDoc(i) =
               SignalSum(ExamKnownTo(config), Cardinality(KeywordHits(config)),
                         PatternHit(config), ContentHit(config), F0_3, F0_4, F0_2)
    /\ ret.analysis_details.document_type_confidence =
         (LET ds == RawDocScores
              m == MaxScore(ds)
          IN IF FLess(F1_0, m) THEN F1_0 ELSE m)

\* a type with several keywords in the filename, several in the content, and a
\* raw score above 1.0
C8_Witness ==
  /\ Returned("analyze_document")
  /\ \E i \in 1..NDoc :
        /\ Cardinality(KeywordHits(document_patterns[i])) >= 3
        /\ PatternHit(document_patterns[i])
        /\ ContentHit(document_patterns[i])
        /\ ExamKnownTo(document_patterns[i])
        /\ FLess(F1_0, RawDoc(i))

\* C9 as stated: education levels are scored with the document-type weights
\* (0.3 per filename keyword, 0.4 for a pattern, 0.2 for content).
C9_EduScoredLikeDoc ==
  Returned("analyze_document") =>
    \A i \in 1..NEdu :
       LET config == education_patterns[i]
       IN RawEdu(i) =
            SignalSum(FALSE, Cardinality(KeywordHits(config)), PatternHit(config),
                      ContentHit(config), F0_3, F0_4, F0_2)

\* C9 amended: education levels are scored by the same steps with their own
\* weights: 0.4 per keyword found in the filename, 0.5 if any pattern matches,
\* 0.3 if content is given and holds any keyword, and no exam bonus; so for
\* equal match counts, not all zero, an education level scores higher than a
\* document type without exam bonus.
C9_EduScoreFormula ==
  Returned("analyze_document") =>
    \A i \in 1..NEdu :
       LET config == education_patterns[i]
           hits == Cardinality(KeywordHits(config))
           pattern == PatternHit(config)
           content == ContentHit(config)
           score == RawEdu(i)
       IN /\ score = SignalSum(FALSE, hits, pattern, content, F0_4, F0_5, F0_3)
          /\ (hits > 0 \/ pattern \/ content)
               => FLess(SignalSum(FALSE, hits, pattern, content, F0_3, F0_4, F0_2),
                        score)

C9_Witness ==
  /\ Returned("analyze_document")
  /\ \E i \in 1..NEdu :
        /\ Cardinality(KeywordHits(education_patterns[i])) >= 2
        /\ PatternHit(education_patterns[i])
        /\ ContentHit(education_patterns[i])

\* C10: under jee, neet, upsc, gate or cat the document type is never the
\* fallback; when no keyword or pattern of any type matches filename or content,
\* the result is photograph with document_type_confidence 0.1.
C10_ExamBonusDecides ==
  (Returned("analyze_document")
     /\ call.exam_type \in {Some("jee"), Some("neet"), Some("upsc"), Some("gate"),
                            Some("cat")}) =>
    /\ ret.document_type # "document"
    /\ (\A i \in 1..NDoc :
           /\ KeywordHits(document_patterns[i]) = {}
           /\ ~PatternHit(document_patterns[i])
           /\ ~ContentHit(document_patterns[i]))
         => /\ ret.document_type = "photograph"
            /\ ret.analysis_details.document_type_confidence = F0_1

C10_Witness ==
  /\ Returned("analyze_document")
  /\ call.filename = "report"
  /\ call.exam_type = Some("gate")
  /\ call.file_content = Some("lorem ipsum")
  /\ ret.document_type = "photograph"
  /\ ret.analysis_details.document_type_confidence = F0_1

=============================================================================
